---- MODULE Spec2Model ----
(***************************************************************************)
(* Model of chain.Chain (src/chain/chain.go): a persistent block chain     *)
(* over a key-value store, with a trunk index, a transaction-location      *)
(* index, a persisted best-block pointer, an in-memory best block and      *)
(* load-through caches.                                                    *)
(*                                                                         *)
(* A block id is a content hash.  Here an id is the sequence of the bodies *)
(* (each by its place in BodyTable) on the path from genesis to the block, *)
(* so that an id determines its number (first bytes of the hash), its      *)
(* parent id and its body, and two different blocks never share an id.     *)
(* The zero hash is <<>>.                                                  *)
(***************************************************************************)
EXTENDS Integers, Sequences, FiniteSets, TLC

\* ------------------------------------------------------------ bounds
MaxNumber == 2      \* highest block number offered to the chain
MaxBlocks == 4      \* most blocks the store holds
Txs == {"t1", "t2"}

ZeroHash == <<>>

\* ------------------------------------------------------------ blocks
\* The bodies blocks carry, each known by its place in this table: t1 stands
\* first in one body and second in another, two bodies share t2, and a
\* genesis transaction may come again in a later block.
BodyTable == << <<>>, <<"t2">>, <<"t2", "t1">>, <<"t1">> >>

\* The bodies of the blocks above genesis, and those of a genesis.
Bodies == { k \in DOMAIN BodyTable : BodyTable[k] \in {<<>>, <<"t2">>, <<"t2", "t1">>} }

GenesisBodies == { k \in DOMAIN BodyTable : BodyTable[k] \in {<<>>, <<"t1">>} }

RECURSIVE IDsOfLen(_)
IDsOfLen(n) ==
  IF n = 1 THEN { <<b>> : b \in GenesisBodies }
  ELSE { Append(p, b) : p \in IDsOfLen(n - 1), b \in Bodies }

BlockIDs == UNION { IDsOfLen(n) : n \in 1..(MaxNumber + 1) }

Front(s) == SubSeq(s, 1, Len(s) - 1)

\* block.Number(id): the number is read off the id.
Number(id) == Len(id) - 1
ParentID(id) == Front(id)
Transactions(id) == BodyTable[id[Len(id)]]

\* ------------------------------------------------------------ state
VARIABLES
  kvHeader,      \* block-header(id): the ids whose header the store holds
  kvBody,        \* block-body(id): the ids whose body the store holds
  kvTxLoc,       \* tx-location(tx id) -> [blockID, index], NoLoc when absent
  kvTrunk,       \* trunk(number) -> block id, ZeroHash when absent
  kvBest,        \* best -> block id, ZeroHash when absent
  bestBlock,     \* Chain.bestBlock: the block's id, ZeroHash for nil
  cachedHeader,  \* Chain.cached.header: the ids held
  cachedBody,    \* Chain.cached.body: the ids held
  cachedTxIDs,   \* Chain.cached.blockTxIDs: the ids held
  last,          \* the last call and what it returned
  kvReceipts,    \* block-receipts(id) -> receipts, for the ids that have them
  cachedReceipts,\* Chain.cached.receipts: id -> receipts, for the ids held
  rw,            \* Chain.rw: the writer that has it, the readers that have it
  th             \* the threads calling the chain: where each is in its call

vars == <<kvHeader, kvBody, kvTxLoc, kvTrunk, kvBest, bestBlock,
          cachedHeader, cachedBody, cachedTxIDs, last,
          kvReceipts, cachedReceipts, rw, th>>

kvVars == <<kvHeader, kvBody, kvTxLoc, kvTrunk, kvBest>>

rcVars == <<kvReceipts, cachedReceipts>>

thVars == <<rw, th>>

\* The threads that call the chain concurrently, and no thread.
Threads == {"p", "q"}
NoThread == ""

\* No receipts stored or cached for any block.
NoReceipts == [id \in {} |-> <<>>]

\* A thread that is in no call, and the lock when no thread has it.
ThreadIdle == [pc |-> "idle", op |-> "", best |-> ZeroHash, id |-> ZeroHash,
               isTrunk |-> FALSE, err |-> ""]
Unlocked == [w |-> NoThread, readers |-> {}]

NoLoc == [blockID |-> ZeroHash, index |-> 0]

\* Errors, as the strings the calls return ("" is nil).
ErrNotFound == "not found"
ErrParentMissing == "parent missing"
ErrGenesisMismatch == "genesis mismatch"
ErrStore == "store error"

IsNotFound(err) == err = ErrNotFound

\* A call and its return: op(id, isTrunk, tx) returned err, and with it the
\* diff (AddBlock), the location (GetTransaction, LookupTransaction) and the
\* transaction (GetTransaction).  write tells what became of the call's
\* batch.Write(): "none" when it was not reached, "ok", or "failed".
Result(op, id, isTrunk, tx, err, diff, loc) ==
  [op |-> op, id |-> id, isTrunk |-> isTrunk, tx |-> tx, err |-> err,
   diff |-> diff, loc |-> loc, rtx |-> "", write |-> "none"]

Written(r, storeOK) ==
  [r EXCEPT !.write = IF storeOK THEN "ok" ELSE "failed"]

\* No call is in progress and no result is waiting for the caller.
Idle == Result("", ZeroHash, FALSE, "", "", {}, NoLoc)

\* New(kv) on an empty store.
Init ==
  /\ kvHeader = {}
  /\ kvBody = {}
  /\ kvTxLoc = [t \in Txs |-> NoLoc]
  /\ kvTrunk = [n \in 0..MaxNumber |-> ZeroHash]
  /\ kvBest = ZeroHash
  /\ bestBlock = ZeroHash
  /\ cachedHeader = {}
  /\ cachedBody = {}
  /\ cachedTxIDs = {}
  /\ last = Idle
  /\ kvReceipts = NoReceipts
  /\ cachedReceipts = NoReceipts
  /\ rw = Unlocked
  /\ th = [t \in Threads |-> ThreadIdle]

\* ------------------------------------------------------------ reads
\* getBlockHeader / getBlockBody: a cache hit, or a load from the store.
HasHeader(id) == id \in cachedHeader \/ id \in kvHeader
HasBody(id) == id \in cachedBody \/ id \in kvBody

\* getBlock succeeds when the header and then the body are got.
HasBlock(id) == HasHeader(id) /\ HasBody(id)

\* What GetOrLoad leaves in the header and body caches after getBlock was
\* called on each id of visited: a loaded value is stored, an error is not.
HeaderCacheAfter(visited) == cachedHeader \cup {v \in visited : HasHeader(v)}
BodyCacheAfter(visited) == cachedBody \cup {v \in visited : HasBlock(v)}

\* getBlockIDByNumber: a single lookup in the trunk index.
getBlockIDByNumber(num) ==
  IF num \in DOMAIN kvTrunk /\ kvTrunk[num] # ZeroHash
  THEN [err |-> "", id |-> kvTrunk[num]]
  ELSE [err |-> ErrNotFound, id |-> ZeroHash]

\* getBlockByNumber: the trunk lookup, then getBlock.
getBlockByNumber(num) ==
  LET r == getBlockIDByNumber(num) IN
  IF r.err # "" THEN [err |-> r.err, id |-> ZeroHash, visited |-> {}]
  ELSE IF ~HasBlock(r.id)
       THEN [err |-> ErrNotFound, id |-> ZeroHash, visited |-> {r.id}]
       ELSE [err |-> "", id |-> r.id, visited |-> {r.id}]

\* getBestBlock: the in-memory block when set, else the persisted best id
\* materialised, which then becomes the in-memory block.
getBestBlock ==
  IF bestBlock # ZeroHash
  THEN [err |-> "", best |-> bestBlock, visited |-> {}, mem |-> bestBlock]
  ELSE IF kvBest = ZeroHash
       THEN [err |-> ErrNotFound, best |-> ZeroHash, visited |-> {},
             mem |-> bestBlock]
       ELSE IF ~HasBlock(kvBest)
            THEN [err |-> ErrNotFound, best |-> ZeroHash,
                  visited |-> {kvBest}, mem |-> bestBlock]
            ELSE [err |-> "", best |-> kvBest, visited |-> {kvBest},
                  mem |-> kvBest]

\* traceBackToCommonAncestor(b1, b2): c1 and c2 are the blocks passed on
\* either side, head first; visited are the ids handed to getBlock.
RECURSIVE traceBack(_, _, _, _, _)
traceBack(b1, b2, c1, c2, visited) ==
  IF Number(b1) > Number(b2)
  THEN IF HasBlock(ParentID(b1))
       THEN traceBack(ParentID(b1), b2, Append(c1, b1), c2,
                      visited \cup {ParentID(b1)})
       ELSE [err |-> ErrNotFound, ancestor |-> ZeroHash, c1 |-> <<>>,
             c2 |-> <<>>, visited |-> visited \cup {ParentID(b1)}]
  ELSE IF Number(b1) < Number(b2)
  THEN IF HasBlock(ParentID(b2))
       THEN traceBack(b1, ParentID(b2), c1, Append(c2, b2),
                      visited \cup {ParentID(b2)})
       ELSE [err |-> ErrNotFound, ancestor |-> ZeroHash, c1 |-> <<>>,
             c2 |-> <<>>, visited |-> visited \cup {ParentID(b2)}]
  ELSE IF b1 = b2
  THEN [err |-> "", ancestor |-> b1, c1 |-> c1, c2 |-> c2,
        visited |-> visited]
  ELSE IF ~HasBlock(ParentID(b1))
  THEN [err |-> ErrNotFound, ancestor |-> ZeroHash, c1 |-> <<>>,
        c2 |-> <<>>, visited |-> visited \cup {ParentID(b1)}]
  ELSE IF ~HasBlock(ParentID(b2))
  THEN [err |-> ErrNotFound, ancestor |-> ZeroHash, c1 |-> <<>>,
        c2 |-> <<>>, visited |-> visited \cup {ParentID(b1), ParentID(b2)}]
  ELSE traceBack(ParentID(b1), ParentID(b2), Append(c1, b1), Append(c2, b2),
                 visited \cup {ParentID(b1), ParentID(b2)})

\* Mutant of the walk's return: the common ancestor closes the first list.
traceBackToCommonAncestor_WithCommon(b1, b2) ==
  LET r == traceBack(b1, b2, <<>>, <<>>, {})
  IN IF r.err = "" THEN [r EXCEPT !.c1 = Append(@, r.ancestor)] ELSE r

traceBackToCommonAncestor(b1, b2) == traceBack(b1, b2, <<>>, <<>>, {})

\* ------------------------------------------------------------ persist
\* A batch is carried as the values its puts and deletes leave, applied in
\* the order they were issued: b.trunk, b.txLoc, b.best, b.header, b.body.
NewBatch ==
  [header |-> kvHeader, body |-> kvBody, txLoc |-> kvTxLoc,
   trunk |-> kvTrunk, best |-> kvBest]

\* persist.SaveBlock: the header and the body under the block's id.
SaveBlock(b, id) ==
  [b EXCEPT !.header = @ \cup {id}, !.body = @ \cup {id}]

\* persist.SaveTxLocations: one row per transaction, its index in the body
\* (counted from 0) and the block id.
RECURSIVE SaveTxLocationsFrom(_, _, _, _)
SaveTxLocationsFrom(txLoc, txs, blockID, i) ==
  IF i > Len(txs) THEN txLoc
  ELSE SaveTxLocationsFrom(
         [txLoc EXCEPT ![txs[i]] = [blockID |-> blockID, index |-> i - 1]],
         txs, blockID, i + 1)

SaveTxLocations(b, txs, blockID) ==
  [b EXCEPT !.txLoc = SaveTxLocationsFrom(@, txs, blockID, 1)]

\* persist.EraseTxLocations: the rows of the given transactions are deleted.
EraseTxLocations(b, txs) ==
  [b EXCEPT !.txLoc =
     [t \in Txs |-> IF \E i \in 1..Len(txs) : txs[i] = t THEN NoLoc ELSE @[t]]]

\* persist.SaveTrunkBlockID / EraseTrunkBlockID: the number is the id's.
SaveTrunkBlockID(b, id) == [b EXCEPT !.trunk[Number(id)] = id]
EraseTrunkBlockID(b, id) == [b EXCEPT !.trunk[Number(id)] = ZeroHash]

\* persist.SaveBestBlockID
SaveBestBlockID(b, id) == [b EXCEPT !.best = id]

\* persist.LoadTxLocation
LoadTxLocation(txID) ==
  IF kvTxLoc[txID] = NoLoc THEN [err |-> ErrNotFound, loc |-> NoLoc]
  ELSE [err |-> "", loc |-> kvTxLoc[txID]]

\* batch.Write(): every put and delete of the batch, or (ok false) none.
BatchWrite(b) ==
  /\ kvHeader' = b.header
  /\ kvBody' = b.body
  /\ kvTxLoc' = b.txLoc
  /\ kvTrunk' = b.trunk
  /\ kvBest' = b.best

BodySet(txs) == { txs[i] : i \in 1..Len(txs) }

\* ------------------------------------------------------------ writes
\* Mutant of the comparison: any genesis passes.
SameGenesis_Always(stored, genesis) == TRUE

\* The comparison of the stored block 0 with the given genesis.
SameGenesis(stored, genesis) == stored = genesis

\* WriteGenesis(genesis); storeOK is whether batch.Write() succeeds.
WriteGenesis(genesis, storeOK) ==
  LET b == getBlockByNumber(0)
      batch == SaveBestBlockID(
                 SaveTrunkBlockID(
                   SaveTxLocations(SaveBlock(NewBatch, genesis),
                                   Transactions(genesis), genesis),
                   genesis),
                 genesis)
      ret(err) == Result("WriteGenesis", genesis, FALSE, "", err, {}, NoLoc)
  IN
  /\ cachedHeader' = HeaderCacheAfter(b.visited)
  /\ cachedBody' = BodyCacheAfter(b.visited)
  /\ UNCHANGED cachedTxIDs
  /\ IF b.err # ""
     THEN \* IsNotFound(err): no genesis yet
          IF storeOK
          THEN /\ BatchWrite(batch)
               /\ bestBlock' = genesis
               /\ last' = Written(ret(""), storeOK)
          ELSE /\ UNCHANGED <<kvVars, bestBlock>>
               /\ last' = Written(ret(ErrStore), storeOK)
     ELSE /\ UNCHANGED <<kvVars, bestBlock>>
          /\ last' = ret(IF SameGenesis(b.id, genesis) THEN ""
                         ELSE ErrGenesisMismatch)

\* Mutants of the loop over oldBlocks: one leaves the trunk entries of the
\* old blocks in place, one leaves their location rows in place.
RECURSIVE EraseOldBlocks_KeepTrunk(_, _, _)
EraseOldBlocks_KeepTrunk(st, oldBlocks, i) ==
  IF i > Len(oldBlocks) THEN st
  ELSE LET txs == Transactions(oldBlocks[i])
       IN EraseOldBlocks_KeepTrunk(
            [batch |-> EraseTxLocations(st.batch, txs),
             diff |-> st.diff \cup BodySet(txs)],
            oldBlocks, i + 1)

RECURSIVE EraseOldBlocks_KeepTxLoc(_, _, _)
EraseOldBlocks_KeepTxLoc(st, oldBlocks, i) ==
  IF i > Len(oldBlocks) THEN st
  ELSE LET txs == Transactions(oldBlocks[i])
       IN EraseOldBlocks_KeepTxLoc(
            [batch |-> EraseTrunkBlockID(st.batch, oldBlocks[i]),
             diff |-> st.diff \cup BodySet(txs)],
            oldBlocks, i + 1)

\* Mutant of the loop over oldBlocks: the header and the body of each old
\* block go with its rows.
RECURSIVE EraseOldBlocks_WithBlock(_, _, _)
EraseOldBlocks_WithBlock(st, oldBlocks, i) ==
  IF i > Len(oldBlocks) THEN st
  ELSE LET ob == oldBlocks[i]
           txs == Transactions(ob)
           erased == EraseTxLocations(EraseTrunkBlockID(st.batch, ob), txs)
       IN EraseOldBlocks_WithBlock(
            [batch |-> [erased EXCEPT !.header = @ \ {ob}, !.body = @ \ {ob}],
             diff |-> st.diff \cup BodySet(txs)],
            oldBlocks, i + 1)

\* The loop over oldBlocks: the trunk entry and the location rows of each
\* go, and its transactions enter diffTxsMap (here the set of its keys).
RECURSIVE EraseOldBlocks(_, _, _)
EraseOldBlocks(st, oldBlocks, i) ==
  IF i > Len(oldBlocks) THEN st
  ELSE LET ob == oldBlocks[i]
           txs == Transactions(ob)
       IN EraseOldBlocks(
            [batch |-> EraseTxLocations(EraseTrunkBlockID(st.batch, ob), txs),
             diff |-> st.diff \cup BodySet(txs)],
            oldBlocks, i + 1)

\* Mutant of the loop over newBlocks: their transactions stay in diffTxsMap.
RECURSIVE SaveNewBlocks_KeepDiff(_, _, _)
SaveNewBlocks_KeepDiff(st, newBlocks, i) ==
  IF i > Len(newBlocks) THEN st
  ELSE LET nb == newBlocks[i]
       IN SaveNewBlocks_KeepDiff(
            [batch |-> SaveTxLocations(SaveTrunkBlockID(st.batch, nb),
                                       Transactions(nb), nb),
             diff |-> st.diff],
            newBlocks, i + 1)

\* The loop over newBlocks: the trunk entry and the location rows of each
\* are written, and its transactions leave diffTxsMap.
RECURSIVE SaveNewBlocks(_, _, _)
SaveNewBlocks(st, newBlocks, i) ==
  IF i > Len(newBlocks) THEN st
  ELSE LET nb == newBlocks[i]
           txs == Transactions(nb)
       IN SaveNewBlocks(
            [batch |-> SaveTxLocations(SaveTrunkBlockID(st.batch, nb), txs, nb),
             diff |-> st.diff \ BodySet(txs)],
            newBlocks, i + 1)

\* Mutant of the reorg: the new blocks' rows are written before the old
\* blocks' rows are erased.
Reorg_SaveFirst(batch, oldBlocks, newBlocks, newBlock) ==
  LET saved == SaveNewBlocks([batch |-> batch, diff |-> {}], newBlocks, 1)
      erased == EraseOldBlocks(saved, oldBlocks, 1)
  IN [batch |-> SaveBestBlockID(erased.batch, newBlock), diff |-> erased.diff]

\* Mutant of the reorg: the best-block id is not saved with the batch.
Reorg_NoBest(batch, oldBlocks, newBlocks, newBlock) ==
  LET erased == EraseOldBlocks([batch |-> batch, diff |-> {}], oldBlocks, 1)
      saved == SaveNewBlocks(erased, newBlocks, 1)
  IN [batch |-> saved.batch, diff |-> saved.diff]

\* The isTrunk branch of AddBlock once the common ancestor is traced.
Reorg(batch, oldBlocks, newBlocks, newBlock) ==
  LET erased == EraseOldBlocks([batch |-> batch, diff |-> {}], oldBlocks, 1)
      saved == SaveNewBlocks(erased, newBlocks, 1)
  IN [batch |-> SaveBestBlockID(saved.batch, newBlock), diff |-> saved.diff]

\* Mutants of the two checks: the first never finds the block, the second
\* always finds the parent.
AlreadyThere_Never(newBlock) == FALSE
ParentThere_Always(newBlock) == TRUE

\* Mutant of the batch AddBlock starts: the location rows of the new block
\* are written with it, trunk or not.
BlockBatch_WithTxLocations(newBlock) ==
  SaveTxLocations(SaveBlock(NewBatch, newBlock), Transactions(newBlock),
                  newBlock)

\* The two checks AddBlock makes first: the block is already in the chain,
\* and its parent is.
AlreadyThere(newBlock) == HasBlock(newBlock)
ParentThere(newBlock) == HasBlock(ParentID(newBlock))

\* The batch AddBlock starts: the new block's header and body.
BlockBatch(newBlock) == SaveBlock(NewBatch, newBlock)

\* Mutant of the header cache update: the new header is added before the
\* batch is written.
HeaderCacheAdded_BeforeWrite(visited, newBlock, written) ==
  HeaderCacheAfter(visited) \cup {newBlock}

\* What the caches hold when AddBlock returns: what its getBlock calls
\* loaded and, once the batch is written, the new header and body.
HeaderCacheAdded(visited, newBlock, written) ==
  HeaderCacheAfter(visited) \cup (IF written THEN {newBlock} ELSE {})
BodyCacheAdded(visited, newBlock, written) ==
  BodyCacheAfter(visited) \cup (IF written THEN {newBlock} ELSE {})

\* AddBlock(newBlock, isTrunk); storeOK is whether batch.Write() succeeds.
AddBlock(newBlock, isTrunk, storeOK) ==
  LET parent == ParentID(newBlock)
      ret(err, diff) ==
        Result("AddBlock", newBlock, isTrunk, "", err, diff, NoLoc)
      bb == getBestBlock
      tr == traceBackToCommonAncestor(bb.best, newBlock)
      saved == BlockBatch(newBlock)
      re == Reorg(saved, tr.c1, tr.c2, newBlock)
      sawTrunk == {newBlock, parent} \cup bb.visited \cup tr.visited
  IN
  /\ UNCHANGED cachedTxIDs
  /\ IF AlreadyThere(newBlock)
     THEN \* block already there
          /\ cachedHeader' = HeaderCacheAfter({newBlock})
          /\ cachedBody' = BodyCacheAfter({newBlock})
          /\ UNCHANGED <<kvVars, bestBlock>>
          /\ last' = ret("", {})
     ELSE IF ~ParentThere(newBlock)
     THEN /\ cachedHeader' = HeaderCacheAfter({newBlock, parent})
          /\ cachedBody' = BodyCacheAfter({newBlock, parent})
          /\ UNCHANGED <<kvVars, bestBlock>>
          /\ last' = ret(ErrParentMissing, {})
     ELSE IF ~isTrunk
     THEN /\ IF storeOK THEN BatchWrite(saved) ELSE UNCHANGED kvVars
          /\ cachedHeader' =
               HeaderCacheAdded({newBlock, parent}, newBlock, storeOK)
          /\ cachedBody' =
               BodyCacheAdded({newBlock, parent}, newBlock, storeOK)
          /\ UNCHANGED bestBlock
          /\ last' = Written(ret(IF storeOK THEN "" ELSE ErrStore, {}),
                             storeOK)
     ELSE IF bb.err # ""
     THEN /\ cachedHeader' = HeaderCacheAfter({newBlock, parent} \cup bb.visited)
          /\ cachedBody' = BodyCacheAfter({newBlock, parent} \cup bb.visited)
          /\ bestBlock' = bb.mem
          /\ UNCHANGED kvVars
          /\ last' = ret(bb.err, {})
     ELSE IF tr.err # ""
     THEN /\ cachedHeader' = HeaderCacheAfter(sawTrunk)
          /\ cachedBody' = BodyCacheAfter(sawTrunk)
          /\ bestBlock' = bb.mem
          /\ UNCHANGED kvVars
          /\ last' = ret(tr.err, {})
     ELSE /\ IF storeOK THEN BatchWrite(re.batch) ELSE UNCHANGED kvVars
          /\ cachedHeader' = HeaderCacheAdded(sawTrunk, newBlock, storeOK)
          /\ cachedBody' = BodyCacheAdded(sawTrunk, newBlock, storeOK)
          /\ bestBlock' = IF storeOK THEN newBlock ELSE bb.mem
          /\ last' = Written(ret(IF storeOK THEN "" ELSE ErrStore,
                                 IF storeOK THEN re.diff ELSE {}),
                             storeOK)

\* New(kv) over the store as it is: a restart of the process.
New ==
  /\ bestBlock' = ZeroHash
  /\ cachedHeader' = {}
  /\ cachedBody' = {}
  /\ cachedTxIDs' = {}
  /\ cachedReceipts' = NoReceipts
  /\ UNCHANGED <<kvVars, kvReceipts, last>>

\* ------------------------------------------------------------ lookups
\* getTransaction(txID): the location row, the located body, the transaction
\* at the row's index.  An index outside the body panics.
ErrPanic == "panic: index out of range"

getTransaction(txID) ==
  LET l == LoadTxLocation(txID) IN
  IF l.err # ""
  THEN [err |-> l.err, loc |-> NoLoc, rtx |-> "", bodies |-> {}]
  ELSE IF ~HasBody(l.loc.blockID)
  THEN [err |-> ErrNotFound, loc |-> NoLoc, rtx |-> "",
        bodies |-> {l.loc.blockID}]
  ELSE IF l.loc.index >= Len(Transactions(l.loc.blockID))
  THEN [err |-> ErrPanic, loc |-> NoLoc, rtx |-> "",
        bodies |-> {l.loc.blockID}]
  ELSE [err |-> "", loc |-> l.loc,
        rtx |-> Transactions(l.loc.blockID)[l.loc.index + 1],
        bodies |-> {l.loc.blockID}]

GetTransaction(txID) ==
  LET r == getTransaction(txID) IN
  /\ cachedBody' = cachedBody \cup {v \in r.bodies : HasBody(v)}
  /\ UNCHANGED <<kvVars, bestBlock, cachedHeader, cachedTxIDs>>
  /\ last' = [Result("GetTransaction", ZeroHash, FALSE, txID, r.err, {}, r.loc)
               EXCEPT !.rtx = r.rtx]

\* getTransactionIDs(blockID)[txID]: the map gives a transaction id the index
\* of its last occurrence in the body, counted from 0; -1 when not found.
TxIndex(blockID, txID) ==
  LET txs == Transactions(blockID)
      at == { i \in 1..Len(txs) : txs[i] = txID }
  IN IF at = {} THEN -1
     ELSE (CHOOSE i \in at : \A j \in at : j <= i) - 1

\* The loop over branch in LookupTransaction: the first block, head first,
\* whose transaction ids hold txID; seen are the blocks whose ids were got.
RECURSIVE SearchBranch(_, _, _, _)
SearchBranch(branch, txID, i, seen) ==
  IF i > Len(branch)
  THEN [found |-> FALSE, loc |-> NoLoc, seen |-> seen]
  ELSE IF TxIndex(branch[i], txID) >= 0
  THEN [found |-> TRUE,
        loc |-> [blockID |-> branch[i], index |-> TxIndex(branch[i], txID)],
        seen |-> seen \cup {branch[i]}]
  ELSE SearchBranch(branch, txID, i + 1, seen \cup {branch[i]})

\* Mutant of the last test of LookupTransaction: strictly below the common
\* ancestor.
OnSharedHistory_Strict(loc, ancestor) ==
  Number(loc.blockID) < Number(ancestor)

\* The last test of LookupTransaction: the located block is not above the
\* common ancestor.
OnSharedHistory(loc, ancestor) == Number(loc.blockID) <= Number(ancestor)

\* LookupTransaction(blockID, txID)
LookupTransaction(blockID, txID) ==
  LET ret(err, loc) ==
        Result("LookupTransaction", blockID, FALSE, txID, err, {}, loc)
      bb == getBestBlock
      tr == traceBackToCommonAncestor(blockID, bb.best)
      sb == SearchBranch(tr.c1, txID, 1, {})
      l == LoadTxLocation(txID)
  IN
  /\ UNCHANGED kvVars
  /\ bestBlock' = bb.mem
  /\ IF bb.err # ""
     THEN /\ cachedHeader' = HeaderCacheAfter(bb.visited)
          /\ cachedBody' = BodyCacheAfter(bb.visited)
          /\ UNCHANGED cachedTxIDs
          /\ last' = ret(bb.err, NoLoc)
     ELSE IF ~HasBlock(blockID)
     THEN /\ cachedHeader' = HeaderCacheAfter(bb.visited \cup {blockID})
          /\ cachedBody' = BodyCacheAfter(bb.visited \cup {blockID})
          /\ UNCHANGED cachedTxIDs
          /\ last' = ret(ErrNotFound, NoLoc)
     ELSE /\ cachedHeader' =
             HeaderCacheAfter(bb.visited \cup {blockID} \cup tr.visited)
          /\ cachedBody' =
             BodyCacheAfter(bb.visited \cup {blockID} \cup tr.visited)
          /\ IF tr.err # ""
             THEN /\ UNCHANGED cachedTxIDs
                  /\ last' = ret(tr.err, NoLoc)
             ELSE /\ cachedTxIDs' = cachedTxIDs \cup sb.seen
                  /\ last' =
                       IF sb.found THEN ret("", sb.loc)
                       ELSE IF l.err # "" THEN ret(l.err, NoLoc)
                       ELSE IF OnSharedHistory(l.loc, tr.ancestor)
                       THEN ret("", l.loc)
                       ELSE ret(ErrNotFound, NoLoc)

\* ------------------------------------------------------------ receipts
\* The receipt vectors offered to SetBlockReceipts: one as long as the
\* longest body and one shorter.
ReceiptVectors == { <<"rb", "ra">>, <<"ra">> }

\* persist.SaveBlockReceipts / LoadBlockReceipts: one key per block id.
SaveBlockReceipts(store, blockID, receipts) == (blockID :> receipts) @@ store

LoadBlockReceipts(blockID) ==
  IF blockID \in DOMAIN kvReceipts
  THEN [err |-> "", receipts |-> kvReceipts[blockID]]
  ELSE [err |-> ErrNotFound, receipts |-> <<>>]

\* A call on receipts and its return: the Result of the other calls, with
\* the receipts (GetBlockReceipts; SetBlockReceipts carries its argument)
\* and the receipt (GetTransactionReceipt).
ReceiptResult(op, id, tx, err, receipts, receipt) ==
  [op |-> op, id |-> id, isTrunk |-> FALSE, tx |-> tx, err |-> err,
   diff |-> {}, loc |-> NoLoc, rtx |-> "", write |-> "none",
   receipts |-> receipts, receipt |-> receipt]

\* Mutant of the cache insert of setBlockReceipts: the cache is left alone.
ReceiptsCacheAdded_Skipped(cache, blockID, receipts) == cache

\* setBlockReceipts: c.cached.receipts.Add(blockID, receipts).
ReceiptsCacheAdded(cache, blockID, receipts) ==
  (blockID :> receipts) @@ cache

\* SetBlockReceipts(blockID, receipts): the cache insert, then the save;
\* storeOK is whether the store's put succeeds.
SetBlockReceipts(blockID, receipts, storeOK) ==
  /\ cachedReceipts' = ReceiptsCacheAdded(cachedReceipts, blockID, receipts)
  /\ kvReceipts' = IF storeOK
                   THEN SaveBlockReceipts(kvReceipts, blockID, receipts)
                   ELSE kvReceipts
  /\ last' = Written(ReceiptResult("SetBlockReceipts", blockID, "",
                                   IF storeOK THEN "" ELSE ErrStore,
                                   receipts, ""),
                     storeOK)
  /\ UNCHANGED <<kvVars, bestBlock, cachedHeader, cachedBody, cachedTxIDs>>

\* getBlockReceipts: a cache hit, or a load from the store, which the cache
\* keeps when it succeeds.
getBlockReceipts(blockID) ==
  IF blockID \in DOMAIN cachedReceipts
  THEN [err |-> "", receipts |-> cachedReceipts[blockID]]
  ELSE LoadBlockReceipts(blockID)

ReceiptsCacheAfter(blockID) ==
  LET r == getBlockReceipts(blockID)
  IN IF r.err = "" THEN (blockID :> r.receipts) @@ cachedReceipts
     ELSE cachedReceipts

GetBlockReceipts(blockID) ==
  LET r == getBlockReceipts(blockID) IN
  /\ cachedReceipts' = ReceiptsCacheAfter(blockID)
  /\ last' = ReceiptResult("GetBlockReceipts", blockID, "", r.err,
                           r.receipts, "")
  /\ UNCHANGED <<kvVars, kvReceipts, bestBlock, cachedHeader, cachedBody,
                 cachedTxIDs>>

\* getTransactionReceipt: the transaction's location, the located block's
\* receipts, the receipt at the location's index.  An index outside the
\* receipts panics.
GetTransactionReceipt(txID) ==
  LET g == getTransaction(txID)
      r == getBlockReceipts(g.loc.blockID)
      ret(err, receipt) ==
        ReceiptResult("GetTransactionReceipt", ZeroHash, txID, err, <<>>,
                      receipt)
  IN
  /\ cachedBody' = cachedBody \cup {v \in g.bodies : HasBody(v)}
  /\ UNCHANGED <<kvVars, kvReceipts, bestBlock, cachedHeader, cachedTxIDs>>
  /\ IF g.err # ""
     THEN /\ UNCHANGED cachedReceipts
          /\ last' = ret(g.err, "")
     ELSE /\ cachedReceipts' = ReceiptsCacheAfter(g.loc.blockID)
          /\ last' = IF r.err # "" THEN ret(r.err, "")
                     ELSE IF g.loc.index >= Len(r.receipts)
                     THEN ret(ErrPanic, "")
                     ELSE ret("", r.receipts[g.loc.index + 1])

\* ------------------------------------------------------------ system
\* Calls are made one at a time (the sequential use of a Chain): a call is
\* made when the caller has taken the result of the one before.
\* The outcomes of batch.Write() a call may meet: both when the call
\* reaches it, and nothing to choose when it returns before.
WriteOutcomes(reached) == IF reached THEN BOOLEAN ELSE {TRUE}

DoWriteGenesis ==
  /\ last = Idle
  /\ \E g \in IDsOfLen(1) :
       \E ok \in WriteOutcomes(getBlockByNumber(0).err # "") :
         WriteGenesis(g, ok)
  /\ UNCHANGED <<rcVars, thVars>>

\* The blocks offered to AddBlock: the stored ones, the children of stored
\* ones, and every block of number 0 or 1 (a block whose parent is the zero
\* hash or an unknown genesis has no stored parent).
Offered ==
  { nb \in BlockIDs :
      nb \in kvHeader \/ ParentID(nb) \in kvHeader \/ Number(nb) <= 1 }

\* The heads asked of LookupTransaction: the stored blocks and every block of
\* number 0.
Heads == { id \in BlockIDs : id \in kvHeader \/ Number(id) = 0 }

DoAddBlock ==
  /\ last = Idle
  /\ \E nb \in Offered, isTrunk \in BOOLEAN :
       /\ Cardinality(kvHeader) < MaxBlocks \/ nb \in kvHeader
       /\ \E ok \in WriteOutcomes(~AlreadyThere(nb) /\ ParentThere(nb)) :
            AddBlock(nb, isTrunk, ok)
  /\ UNCHANGED <<rcVars, thVars>>

DoNew == last = Idle /\ kvBest # ZeroHash /\ New /\ UNCHANGED thVars

DoGetTransaction ==
  /\ last = Idle
  /\ \E txID \in Txs : GetTransaction(txID)
  /\ UNCHANGED <<rcVars, thVars>>

DoLookupTransaction ==
  /\ last = Idle
  /\ \E blockID \in Heads, txID \in Txs : LookupTransaction(blockID, txID)
  /\ UNCHANGED <<rcVars, thVars>>

\* The caller takes the result; the chain itself is untouched.
Return ==
  /\ last # Idle
  /\ last' = Idle
  /\ UNCHANGED <<kvVars, bestBlock, cachedHeader, cachedBody, cachedTxIDs>>
  /\ UNCHANGED <<rcVars, thVars>>

Next ==
  \/ DoWriteGenesis
  \/ DoAddBlock
  \/ DoNew
  \/ DoGetTransaction
  \/ DoLookupTransaction
  \/ Return

Spec == Init /\ [][Next]_vars

\* ------------------------------------------------------------ receipts, system
\* The calls on receipts, made one at a time over a small chain: a genesis
\* without transactions and two children of it, one with the body
\* <<t2, t1>> and one with <<t2>>, either of which may become the trunk head.
SmallGenesis == { <<1>> }
SmallBlocks == { <<1, 3>>, <<1, 2>> }

RcWriteGenesis ==
  /\ last = Idle
  /\ \E g \in SmallGenesis :
       \E ok \in WriteOutcomes(getBlockByNumber(0).err # "") :
         WriteGenesis(g, ok)
  /\ UNCHANGED <<rcVars, thVars>>

RcAddBlock ==
  /\ last = Idle
  /\ \E nb \in SmallBlocks, isTrunk \in BOOLEAN :
       \E ok \in WriteOutcomes(~AlreadyThere(nb) /\ ParentThere(nb)) :
         AddBlock(nb, isTrunk, ok)
  /\ UNCHANGED <<rcVars, thVars>>

DoSetBlockReceipts ==
  /\ last = Idle
  /\ \E blockID \in SmallBlocks, receipts \in ReceiptVectors, ok \in BOOLEAN :
       SetBlockReceipts(blockID, receipts, ok)
  /\ UNCHANGED thVars

DoGetBlockReceipts ==
  /\ last = Idle
  /\ \E blockID \in SmallBlocks : GetBlockReceipts(blockID)
  /\ UNCHANGED thVars

DoGetTransactionReceipt ==
  /\ last = Idle
  /\ \E txID \in Txs : GetTransactionReceipt(txID)
  /\ UNCHANGED thVars

NextReceipts ==
  \/ RcWriteGenesis
  \/ RcAddBlock
  \/ DoNew
  \/ DoSetBlockReceipts
  \/ DoGetBlockReceipts
  \/ DoGetTransactionReceipt
  \/ Return

SpecReceipts == Init /\ [][NextReceipts]_vars

\* ------------------------------------------------------------ the walk, step by step
\* traceBackToCommonAncestor as the loop it is, one iteration a step, over
\* every store a Chain may be opened on: New(kv) takes the store as it is
\* given, and a store that lost blocks holds heads whose parents cannot be
\* loaded, or blocks of two geneses.
TraceBlocks == { <<1>>, <<4>>, <<1, 2>>, <<1, 3>>, <<1, 2, 1>>, <<4, 1>> }

\* The trunk entries and the location rows a chain up to best has left.
TrunkOf(best) ==
  [n \in 0..MaxNumber |->
     IF n < Len(best) THEN SubSeq(best, 1, n + 1) ELSE ZeroHash]

RECURSIVE RowsUpTo(_, _)
RowsUpTo(best, k) ==
  IF k = 0 THEN [t \in Txs |-> NoLoc]
  ELSE SaveTxLocationsFrom(RowsUpTo(best, k - 1),
                           Transactions(SubSeq(best, 1, k)),
                           SubSeq(best, 1, k), 1)

\* New(kv) on a store that holds the blocks of S and the trunk up to best.
TraceInit ==
  \E S \in SUBSET TraceBlocks : \E best \in S :
    /\ kvHeader = S
    /\ kvBody = S
    /\ kvTxLoc = RowsUpTo(best, Len(best))
    /\ kvTrunk = TrunkOf(best)
    /\ kvBest = best
    /\ bestBlock = ZeroHash
    /\ cachedHeader = {}
    /\ cachedBody = {}
    /\ cachedTxIDs = {}
    /\ last = Idle
    /\ kvReceipts = NoReceipts
    /\ cachedReceipts = NoReceipts
    /\ rw = Unlocked
    /\ th = [t \in Threads |-> ThreadIdle]

\* The walk at the top of its loop: the heads it was called with, the two
\* cursors, the lists so far, and the return once it is done.
Walk(a, b) ==
  [op |-> "traceBack", a |-> a, b |-> b, b1 |-> a, b2 |-> b,
   c1 |-> <<>>, c2 |-> <<>>, err |-> "", ancestor |-> ZeroHash,
   done |-> FALSE, visited |-> {}]

\* Mutant of the error return: the loop goes on with the cursors it has.
LoadFailed_Ignored(w, visited) == [w EXCEPT !.visited = visited]

\* return nil, nil, nil, err
LoadFailed(w, visited) ==
  [w EXCEPT !.err = ErrNotFound, !.done = TRUE, !.c1 = <<>>, !.c2 = <<>>,
            !.visited = visited]

\* One iteration of the loop.
WalkStep(w) ==
  LET p1 == ParentID(w.b1)
      p2 == ParentID(w.b2)
  IN
  IF Number(w.b1) > Number(w.b2)
  THEN IF HasBlock(p1)
       THEN [w EXCEPT !.c1 = Append(@, w.b1), !.b1 = p1, !.visited = {p1}]
       ELSE LoadFailed(w, {p1})
  ELSE IF Number(w.b1) < Number(w.b2)
  THEN IF HasBlock(p2)
       THEN [w EXCEPT !.c2 = Append(@, w.b2), !.b2 = p2, !.visited = {p2}]
       ELSE LoadFailed(w, {p2})
  ELSE IF w.b1 = w.b2
  THEN [w EXCEPT !.ancestor = w.b1, !.done = TRUE, !.visited = {}]
  ELSE IF ~HasBlock(p1) THEN LoadFailed(w, {p1})
  ELSE IF ~HasBlock(p2) THEN LoadFailed(w, {p1, p2})
  ELSE [w EXCEPT !.c1 = Append(@, w.b1), !.c2 = Append(@, w.b2),
                 !.b1 = p1, !.b2 = p2, !.visited = {p1, p2}]

\* The walk is called on two blocks the chain holds.
TraceStart ==
  /\ last = Idle
  /\ \E a, b \in { x \in TraceBlocks : HasBlock(x) } : last' = Walk(a, b)
  /\ UNCHANGED <<kvVars, bestBlock, cachedHeader, cachedBody, cachedTxIDs>>
  /\ UNCHANGED <<rcVars, thVars>>

TraceStep ==
  /\ last # Idle /\ last.op = "traceBack" /\ ~last.done
  /\ last' = WalkStep(last)
  /\ cachedHeader' = HeaderCacheAfter(WalkStep(last).visited)
  /\ cachedBody' = BodyCacheAfter(WalkStep(last).visited)
  /\ UNCHANGED <<kvVars, bestBlock, cachedTxIDs, rcVars, thVars>>

TraceAddBlock ==
  /\ last = Idle
  /\ \E nb \in TraceBlocks, isTrunk \in BOOLEAN :
       \E ok \in WriteOutcomes(~AlreadyThere(nb) /\ ParentThere(nb)) :
         AddBlock(nb, isTrunk, ok)
  /\ UNCHANGED <<rcVars, thVars>>

TraceLookup ==
  /\ last = Idle
  /\ \E blockID \in TraceBlocks, txID \in Txs :
       LookupTransaction(blockID, txID)
  /\ UNCHANGED <<rcVars, thVars>>

\* The caller takes the result of a call that has returned.
TraceReturn ==
  /\ last # Idle
  /\ last.op = "traceBack" => last.done
  /\ last' = Idle
  /\ UNCHANGED <<kvVars, bestBlock, cachedHeader, cachedBody, cachedTxIDs>>
  /\ UNCHANGED <<rcVars, thVars>>

TraceNext ==
  \/ TraceStart
  \/ TraceStep
  \/ TraceAddBlock
  \/ TraceLookup
  \/ TraceReturn

\* A call that is running goes on running: the loop takes its next
\* iteration.
TraceSpec == TraceInit /\ [][TraceNext]_vars /\ WF_vars(TraceStep)

\* ------------------------------------------------------------ threads
\* The calls as the threads of a process make them: each takes Chain.rw,
\* runs, and releases it on return.  A writer's call is two steps, what it
\* does up to batch.Write() and what it does to the memory of the Chain
\* after; getBestBlock is two steps, what it reads and loads and its
\* assignment of c.bestBlock.

\* AddBlock up to batch.Write() (chain.go:99-161): the error returned, the
\* diff, the batch, whether the batch was written, the ids handed to
\* getBlock, and c.bestBlock as getBestBlock left it.
addBlockOutcome(newBlock, isTrunk, storeOK) ==
  LET parent == ParentID(newBlock)
      bb == getBestBlock
      tr == traceBackToCommonAncestor(bb.best, newBlock)
      saved == BlockBatch(newBlock)
      re == Reorg(saved, tr.c1, tr.c2, newBlock)
      out(err, diff, batch, written, visited, mem) ==
        [err |-> err, diff |-> diff, batch |-> batch, written |-> written,
         visited |-> visited, mem |-> mem]
  IN
  IF AlreadyThere(newBlock)
  THEN out("", {}, NewBatch, FALSE, {newBlock}, bestBlock)
  ELSE IF ~ParentThere(newBlock)
  THEN out(ErrParentMissing, {}, NewBatch, FALSE, {newBlock, parent},
           bestBlock)
  ELSE IF ~isTrunk
  THEN out(IF storeOK THEN "" ELSE ErrStore, {}, saved, storeOK,
           {newBlock, parent}, bestBlock)
  ELSE IF bb.err # ""
  THEN out(bb.err, {}, NewBatch, FALSE, {newBlock, parent} \cup bb.visited,
           bb.mem)
  ELSE IF tr.err # ""
  THEN out(tr.err, {}, NewBatch, FALSE,
           {newBlock, parent} \cup bb.visited \cup tr.visited, bb.mem)
  ELSE out(IF storeOK THEN "" ELSE ErrStore,
           IF storeOK THEN re.diff ELSE {}, re.batch, storeOK,
           {newBlock, parent} \cup bb.visited \cup tr.visited, bb.mem)

\* WriteGenesis up to batch.Write() (chain.go:59-82, 86-89).
writeGenesisOutcome(genesis, storeOK) ==
  LET b == getBlockByNumber(0)
      batch == SaveBestBlockID(
                 SaveTrunkBlockID(
                   SaveTxLocations(SaveBlock(NewBatch, genesis),
                                   Transactions(genesis), genesis),
                   genesis),
                 genesis)
  IN
  IF b.err # ""
  THEN [err |-> IF storeOK THEN "" ELSE ErrStore, batch |-> batch,
        written |-> storeOK, visited |-> b.visited]
  ELSE [err |-> IF SameGenesis(b.id, genesis) THEN "" ELSE ErrGenesisMismatch,
        batch |-> NewBatch, written |-> FALSE, visited |-> b.visited]

\* LookupTransaction after getBestBlock returned best (chain.go:383-410).
lookupOutcome(best, blockID, txID) ==
  LET tr == traceBackToCommonAncestor(blockID, best)
      sb == SearchBranch(tr.c1, txID, 1, {})
      l == LoadTxLocation(txID)
      out(err, loc, visited, seen) ==
        [err |-> err, loc |-> loc, visited |-> visited, seen |-> seen]
  IN
  IF ~HasBlock(blockID) THEN out(ErrNotFound, NoLoc, {blockID}, {})
  ELSE IF tr.err # ""
  THEN out(tr.err, NoLoc, {blockID} \cup tr.visited, {})
  ELSE IF sb.found
  THEN out("", sb.loc, {blockID} \cup tr.visited, sb.seen)
  ELSE IF l.err # ""
  THEN out(l.err, NoLoc, {blockID} \cup tr.visited, sb.seen)
  ELSE IF OnSharedHistory(l.loc, tr.ancestor)
  THEN out("", l.loc, {blockID} \cup tr.visited, sb.seen)
  ELSE out(ErrNotFound, NoLoc, {blockID} \cup tr.visited, sb.seen)

\* The calls that take the write lock, and those that take the read lock.
WriteOps == {"WriteGenesis", "AddBlock"}
ReadOps == {"GetBestBlock", "LookupTransaction"}

At(t, pc) == th[t].pc = pc

\* A thread moves on in its call, and returns from it.
Goes(t, pc) == [th EXCEPT ![t].pc = pc]
Returns(t) == [th EXCEPT ![t] = ThreadIdle]

\* Mutant of RLock: a reader gets the lock while a writer has it.
CanRLock_Always(lock) == TRUE

\* c.rw.RLock() returns when no writer has the lock or waits for it.
CanRLock(lock) == lock.w = NoThread

\* c.rw.Lock() first excludes the other writers and the readers to come,
\* and returns when the readers that have the lock are gone.
CanLock(lock) == lock.w = NoThread
Drained(lock) == lock.readers = {}

\* Mutant of the deferred RUnlock: the read lock is kept on return.
RUnlocked_Kept(lock, t) == lock

\* defer c.rw.RUnlock(), defer c.rw.Unlock()
RUnlocked(lock, t) == [lock EXCEPT !.readers = @ \ {t}]
WUnlocked(lock, t) == [lock EXCEPT !.w = NoThread]

\* Mutant of the pointer's update after the write: it is left as it was.
BestInstalled_Never(old, newBlock, isTrunk) == old

\* if isTrunk { c.bestBlock = newBlock }
BestInstalled(old, newBlock, isTrunk) == IF isTrunk THEN newBlock ELSE old

memVars == <<bestBlock, cachedHeader, cachedBody, cachedTxIDs>>

\* A thread calls an exported method.
ThCall(t) ==
  /\ At(t, "idle")
  /\ \E op \in WriteOps \cup ReadOps :
       th' = [th EXCEPT ![t].op = op,
                        ![t].pc = IF op \in WriteOps THEN "lock" ELSE "rlock"]
  /\ UNCHANGED <<kvVars, memVars, last, rcVars, rw>>

\* c.rw.Lock()
ThLock(t) ==
  /\ At(t, "lock") /\ CanLock(rw)
  /\ rw' = [rw EXCEPT !.w = t]
  /\ th' = Goes(t, "drain")
  /\ UNCHANGED <<kvVars, memVars, last, rcVars>>

ThDrained(t) ==
  /\ At(t, "drain") /\ Drained(rw)
  /\ th' = Goes(t, "commit")
  /\ UNCHANGED <<kvVars, memVars, last, rcVars, rw>>

\* AddBlock, lines 99-161.
ThAddBlockCommit(t) ==
  /\ At(t, "commit") /\ th[t].op = "AddBlock"
  /\ \E nb \in SmallBlocks, isTrunk \in BOOLEAN :
       \E ok \in WriteOutcomes(~AlreadyThere(nb) /\ ParentThere(nb)) :
         LET o == addBlockOutcome(nb, isTrunk, ok) IN
         /\ IF o.written THEN BatchWrite(o.batch) ELSE UNCHANGED kvVars
         /\ cachedHeader' = HeaderCacheAfter(o.visited)
         /\ cachedBody' = BodyCacheAfter(o.visited)
         /\ bestBlock' = o.mem
         /\ th' = [th EXCEPT ![t].pc = IF o.written THEN "install"
                                       ELSE "unlock",
                              ![t].id = nb, ![t].isTrunk = isTrunk,
                              ![t].err = o.err]
  /\ UNCHANGED <<cachedTxIDs, last, rcVars, rw>>

\* AddBlock, lines 163-168.
ThAddBlockInstall(t) ==
  /\ At(t, "install") /\ th[t].op = "AddBlock"
  /\ cachedHeader' = cachedHeader \cup {th[t].id}
  /\ cachedBody' = cachedBody \cup {th[t].id}
  /\ bestBlock' = BestInstalled(bestBlock, th[t].id, th[t].isTrunk)
  /\ th' = Goes(t, "unlock")
  /\ UNCHANGED <<kvVars, cachedTxIDs, last, rcVars, rw>>

\* WriteGenesis, lines 59-82 and 86-89.
ThWriteGenesisCommit(t) ==
  /\ At(t, "commit") /\ th[t].op = "WriteGenesis"
  /\ \E g \in SmallGenesis :
       \E ok \in WriteOutcomes(getBlockByNumber(0).err # "") :
         LET o == writeGenesisOutcome(g, ok) IN
         /\ IF o.written THEN BatchWrite(o.batch) ELSE UNCHANGED kvVars
         /\ cachedHeader' = HeaderCacheAfter(o.visited)
         /\ cachedBody' = BodyCacheAfter(o.visited)
         /\ th' = [th EXCEPT ![t].pc = IF o.written THEN "install"
                                       ELSE "unlock",
                              ![t].id = g, ![t].isTrunk = TRUE,
                              ![t].err = o.err]
  /\ UNCHANGED <<bestBlock, cachedTxIDs, last, rcVars, rw>>

\* WriteGenesis, line 83.
ThWriteGenesisInstall(t) ==
  /\ At(t, "install") /\ th[t].op = "WriteGenesis"
  /\ bestBlock' = BestInstalled(bestBlock, th[t].id, TRUE)
  /\ th' = Goes(t, "unlock")
  /\ UNCHANGED <<kvVars, cachedHeader, cachedBody, cachedTxIDs, last,
                 rcVars, rw>>

\* The deferred c.rw.Unlock(), and the return.
ThUnlock(t) ==
  /\ At(t, "unlock")
  /\ rw' = WUnlocked(rw, t)
  /\ th' = Returns(t)
  /\ UNCHANGED <<kvVars, memVars, last, rcVars>>

\* c.rw.RLock()
ThRLock(t) ==
  /\ At(t, "rlock") /\ CanRLock(rw)
  /\ rw' = [rw EXCEPT !.readers = @ \cup {t}]
  /\ th' = Goes(t, "best")
  /\ UNCHANGED <<kvVars, memVars, last, rcVars>>

\* getBestBlock, lines 321-331: the pointer when it is set; else the best
\* id and its block are loaded, and the pointer is still to be assigned.
ThReadBest(t) ==
  /\ At(t, "best")
  /\ LET bb == getBestBlock
         next == IF th[t].op = "LookupTransaction" THEN "rest" ELSE "runlock"
     IN
     /\ cachedHeader' = HeaderCacheAfter(bb.visited)
     /\ cachedBody' = BodyCacheAfter(bb.visited)
     /\ th' = [th EXCEPT ![t].best = bb.best, ![t].err = bb.err,
                          ![t].pc = IF bb.err # "" THEN "runlock"
                                    ELSE IF bestBlock # ZeroHash THEN next
                                    ELSE "store"]
  /\ UNCHANGED <<kvVars, bestBlock, cachedTxIDs, last, rcVars, rw>>

\* getBestBlock, line 332: c.bestBlock = best
ThStoreBest(t) ==
  /\ At(t, "store")
  /\ bestBlock' = th[t].best
  /\ th' = Goes(t, IF th[t].op = "LookupTransaction" THEN "rest"
                   ELSE "runlock")
  /\ UNCHANGED <<kvVars, cachedHeader, cachedBody, cachedTxIDs, last,
                 rcVars, rw>>

\* LookupTransaction, lines 383-410.
ThLookupRest(t) ==
  /\ At(t, "rest")
  /\ \E blockID \in SmallGenesis \cup SmallBlocks, txID \in Txs :
       LET o == lookupOutcome(th[t].best, blockID, txID) IN
       /\ cachedHeader' = HeaderCacheAfter(o.visited)
       /\ cachedBody' = BodyCacheAfter(o.visited)
       /\ cachedTxIDs' = cachedTxIDs \cup o.seen
       /\ th' = [th EXCEPT ![t].pc = "runlock", ![t].id = blockID,
                            ![t].err = o.err]
  /\ UNCHANGED <<kvVars, bestBlock, last, rcVars, rw>>

\* The deferred c.rw.RUnlock(), and the return.
ThRUnlock(t) ==
  /\ At(t, "runlock")
  /\ rw' = RUnlocked(rw, t)
  /\ th' = Returns(t)
  /\ UNCHANGED <<kvVars, memVars, last, rcVars>>

\* The process is started again on the store, when no call is running.
ThRestart ==
  /\ \A t \in Threads : At(t, "idle")
  /\ kvBest # ZeroHash
  /\ New
  /\ UNCHANGED thVars

\* What a thread does once it has the lock, and its taking of the lock.
ThRuns(t) ==
  \/ ThDrained(t)
  \/ ThAddBlockCommit(t)
  \/ ThAddBlockInstall(t)
  \/ ThWriteGenesisCommit(t)
  \/ ThWriteGenesisInstall(t)
  \/ ThUnlock(t)
  \/ ThReadBest(t)
  \/ ThStoreBest(t)
  \/ ThLookupRest(t)
  \/ ThRUnlock(t)

ThAcquires(t) == ThLock(t) \/ ThRLock(t)

ThreadNext ==
  \/ \E t \in Threads : ThCall(t)
  \/ \E t \in Threads : ThAcquires(t)
  \/ \E t \in Threads : ThRuns(t)
  \/ ThRestart

\* A thread that can run does run, and a thread that waits for the lock
\* gets it when it is free again and again: sync.RWMutex hands the lock to
\* its waiters, readers after a writer's Unlock and the waiting writer once
\* the readers are gone.
ThreadSpec ==
  /\ Init
  /\ [][ThreadNext]_vars
  /\ \A t \in Threads : WF_vars(ThRuns(t)) /\ SF_vars(ThAcquires(t))

\* ------------------------------------------------------------ reference
\* What the claims speak of, defined on ids alone and apart from the code's
\* own walk: an id's parent-chain is the set of its non-empty prefixes.
Ancestors(id) == { SubSeq(id, 1, k) : k \in 1..Len(id) }

TxsOf(blocks) == UNION { BodySet(Transactions(b)) : b \in blocks }

\* The current trunk: the parent-chain of the persisted best block.
TrunkBlocks == IF kvBest = ZeroHash THEN {} ELSE Ancestors(kvBest)

Stored == kvHeader \cap kvBody

\* No transaction id occurs in two blocks of one stored block's parent-chain.
ChainUnique ==
  \A id \in Stored : \A i, j \in 1..Len(id) :
    i < j => BodySet(BodyTable[id[i]]) \cap BodySet(BodyTable[id[j]]) = {}

\* ------------------------------------------------------------ claims
\* C1: after any committed WriteGenesis / AddBlock calls the trunk index has
\* an entry for exactly the numbers 0..number(best), the entry at
\* number(best) is the persisted best id, every entry is a stored block, and
\* the block at n > 0 has the block at n-1 for its parent.
C1_TrunkIsBestChain ==
  /\ kvBest = ZeroHash => \A n \in DOMAIN kvTrunk : kvTrunk[n] = ZeroHash
  /\ kvBest # ZeroHash =>
       /\ \A n \in DOMAIN kvTrunk :
            (kvTrunk[n] # ZeroHash) <=> (n <= Number(kvBest))
       /\ kvTrunk[Number(kvBest)] = kvBest
       /\ \A n \in 0..Number(kvBest) : kvTrunk[n] \in Stored
       /\ \A n \in 1..Number(kvBest) :
            ParentID(kvTrunk[n]) = kvTrunk[n - 1]
       /\ { kvTrunk[n] : n \in 0..Number(kvBest) } = Ancestors(kvBest)

\* C1 witness: a trunk AddBlock has just switched the trunk to a branch
\* shorter than the one it replaced.
C1_Witness ==
  /\ last.op = "AddBlock" /\ last.isTrunk /\ last.err = ""
  /\ last.diff # {}
  /\ kvBest = last.id
  /\ \E b \in Stored : Number(b) > Number(kvBest)

\* C2 as claimed: for every transaction in a block of the current trunk,
\* getTransaction finds a location, the located block is on the trunk, and
\* the body of that block has the transaction at the location's index.
TrunkTxLocated(t) ==
  LET r == getTransaction(t) IN
  /\ r.err = ""
  /\ r.rtx = t
  /\ r.loc.blockID \in TrunkBlocks
  /\ r.loc.index + 1 \in 1..Len(Transactions(r.loc.blockID))
  /\ Transactions(r.loc.blockID)[r.loc.index + 1] = t

C2_Original == \A t \in TxsOf(TrunkBlocks) : TrunkTxLocated(t)

\* C2 as amended: the same, in the states where no transaction id occurs in
\* two blocks of one stored block's parent-chain.
C2_TrunkTxsLocated == ChainUnique => C2_Original

\* C2 witness: GetTransaction has just returned a location at index 1 of a
\* trunk block above genesis, while the store also holds a block that is
\* not on the trunk, at the best block's number or above.
C2_Witness ==
  /\ ChainUnique
  /\ last.op = "GetTransaction" /\ last.err = ""
  /\ last.loc.index = 1
  /\ Number(last.loc.blockID) > 0
  /\ last.loc.blockID \in TrunkBlocks
  /\ \E b \in Stored : b \notin TrunkBlocks /\ Number(b) >= Number(kvBest)

\* C3: a transaction that is in no block of the current trunk has no
\* location row, and getTransaction answers it with a not-found error.
C3_OffTrunkNotFound ==
  \A t \in Txs \ TxsOf(TrunkBlocks) :
    /\ kvTxLoc[t] = NoLoc
    /\ IsNotFound(getTransaction(t).err)

\* C3 witness: a transaction is in a stored block above the best block's
\* number and in no block of the trunk, and GetTransaction has just answered
\* not found for it.
C3_Witness ==
  /\ last.op = "GetTransaction" /\ IsNotFound(last.err)
  /\ kvBest # ZeroHash
  /\ last.tx \notin TxsOf(TrunkBlocks)
  /\ \E b \in Stored :
       /\ last.tx \in BodySet(Transactions(b))
       /\ Number(b) > Number(kvBest)

\* The diff a switch of the trunk from oldBest to nb owes: the transactions
\* of the blocks only on oldBest's parent-chain that are in no block only on
\* nb's parent-chain.
ExpectedDiff(oldBest, nb) ==
  TxsOf(Ancestors(oldBest) \ Ancestors(nb))
    \ TxsOf(Ancestors(nb) \ Ancestors(oldBest))

\* C4 as claimed: every successful AddBlock(nb, true) returns ExpectedDiff of
\* the best block before the call and nb.
C4_Original ==
  [][ (last'.op = "AddBlock" /\ last'.isTrunk /\ last'.err = "")
        => last'.diff = ExpectedDiff(kvBest, last'.id) ]_vars

\* C4 as amended: a successful AddBlock(nb, true) of a block that was not
\* stored returns ExpectedDiff of the best block before the call and nb, and
\* the empty diff when nb's parent is that best block.
C4_DiffIsOldMinusNew ==
  [][ (last'.op = "AddBlock" /\ last'.isTrunk /\ last'.err = ""
       /\ last'.id \notin Stored)
        => /\ last'.diff = ExpectedDiff(kvBest, last'.id)
           /\ ParentID(last'.id) = kvBest => last'.diff = {} ]_vars

\* C4 witness: a trunk AddBlock replaced the block <<t2, t1>> by its sibling
\* <<t2>> and returned the diff {t1}: t2 is on both segments.
C4_Witness ==
  /\ last.op = "AddBlock" /\ last.isTrunk /\ last.err = ""
  /\ kvBest = last.id
  /\ last.diff = {"t1"}
  /\ Transactions(kvBest) = <<"t2">>
  /\ \E b \in Stored \ TrunkBlocks :
       ParentID(b) = ParentID(kvBest) /\ Transactions(b) = <<"t2", "t1">>

\* C5: AddBlock of a block that is already stored returns no error and an
\* empty diff, and leaves the stored blocks, the trunk index, the location
\* rows, the persisted best id and the in-memory best block as they were,
\* whatever isTrunk is.
C5_StoredBlockNoOp ==
  [][ (last'.op = "AddBlock" /\ last'.id \in Stored)
        => /\ last'.err = ""
           /\ last'.diff = {}
           /\ UNCHANGED <<kvVars, bestBlock>> ]_vars

\* C5 witness: AddBlock(b, true) has just returned nil for a stored block b
\* that is not on the trunk, and the best block is not b.
C5_Witness ==
  /\ last.op = "AddBlock" /\ last.isTrunk /\ last.err = ""
  /\ last.id \in Stored
  /\ last.id \notin TrunkBlocks
  /\ kvBest # last.id /\ bestBlock # last.id

\* C6 as claimed: LookupTransaction(head, t) on a stored head returns a
\* location exactly when t is in a block of head's parent-chain; the location
\* is then a block of that parent-chain with t at the index; otherwise the
\* error is a not-found error.
LookupAgrees ==
  LET chain == Ancestors(last.id) IN
  /\ (last.err = "") <=> (last.tx \in TxsOf(chain))
  /\ last.err = "" =>
       /\ last.loc.blockID \in chain
       /\ last.loc.index + 1 \in 1..Len(Transactions(last.loc.blockID))
       /\ Transactions(last.loc.blockID)[last.loc.index + 1] = last.tx
  /\ last.err # "" => IsNotFound(last.err)

C6_Original ==
  (last.op = "LookupTransaction" /\ last.id \in Stored) => LookupAgrees

\* C6 as amended: the same, in the states where no transaction id occurs in
\* two blocks of one stored block's parent-chain.
C6_LookupOnChain == ChainUnique => C6_Original

\* C6 witness: LookupTransaction from a head that is not on the trunk has
\* just returned a location in a trunk block below the head (the shared
\* history), for a transaction that a trunk block above it does not make it
\* miss.
C6_Witness ==
  /\ ChainUnique
  /\ last.op = "LookupTransaction" /\ last.err = ""
  /\ last.id \in Stored \ TrunkBlocks
  /\ last.loc.blockID \in TrunkBlocks
  /\ last.loc.blockID # last.id
  /\ Number(kvBest) >= Number(last.id)

\* The location rows of a block: one for each transaction of its body.
RowsOf(id, txLoc) ==
  \A i \in 1..Len(Transactions(id)) :
    txLoc[Transactions(id)[i]] = [blockID |-> id, index |-> i - 1]

\* C7: WriteGenesis(b) on a store without block 0, when its batch is written,
\* returns nil and leaves b stored, b's location rows, trunk[0] = b, best = b
\* and the in-memory best block b; with block 0 stored it returns nil when b
\* is that block and the genesis-mismatch error when not, and in both cases
\* leaves the store and the in-memory best block as they were.
C7_WriteGenesis ==
  [][ last'.op = "WriteGenesis" =>
        IF kvTrunk[0] = ZeroHash
        THEN /\ (last'.err = "") <=> (last'.write = "ok")
             /\ last'.err = "" =>
                  /\ last'.id \in kvHeader' /\ last'.id \in kvBody'
                  /\ RowsOf(last'.id, kvTxLoc')
                  /\ kvTrunk'[0] = last'.id
                  /\ kvBest' = last'.id
                  /\ bestBlock' = last'.id
        ELSE /\ last'.err =
                  (IF last'.id = kvTrunk[0] THEN "" ELSE ErrGenesisMismatch)
             /\ UNCHANGED <<kvVars, bestBlock>> ]_vars

\* C7 witness: with blocks appended above the stored genesis, WriteGenesis of
\* another genesis has just returned the genesis-mismatch error.
C7_Witness ==
  /\ last.op = "WriteGenesis" /\ last.err = ErrGenesisMismatch
  /\ last.id # kvTrunk[0]
  /\ Number(kvBest) > 0
  /\ RowsOf(kvTrunk[0], kvTxLoc) /\ Transactions(kvTrunk[0]) # <<>>

\* Every stored block above number 0 has its parent stored.
ParentsStored ==
  \A id \in kvHeader \cup kvBody :
    Number(id) > 0 => ParentID(id) \in Stored

\* C8: AddBlock of a block that is not stored and whose parent is not stored
\* returns the parent-missing error, whatever isTrunk is, and leaves the
\* store, the in-memory best block and the caches' entries for the block as
\* they were; and every stored block above number 0 has its parent stored.
C8_ParentMissing ==
  [][ /\ (last'.op = "AddBlock" /\ last'.id \notin Stored
          /\ ParentID(last'.id) \notin Stored)
        => /\ last'.err = ErrParentMissing
           /\ UNCHANGED <<kvVars, bestBlock>>
           /\ (last'.id \in cachedHeader') = (last'.id \in cachedHeader)
           /\ (last'.id \in cachedBody') = (last'.id \in cachedBody)
      /\ ParentsStored' ]_vars

\* C8 witness: with a chain above genesis stored, AddBlock(nb, true) of a
\* block above number 0 has just returned the parent-missing error.
C8_Witness ==
  /\ last.op = "AddBlock" /\ last.isTrunk /\ last.err = ErrParentMissing
  /\ Number(last.id) > 0
  /\ ParentID(last.id) \notin Stored
  /\ Number(kvBest) > 0

\* C9: a successful AddBlock(nb, false) of a block that was not stored
\* stores nb's header and body and returns an empty diff, and leaves the
\* trunk index, every location row, the persisted best id and the in-memory
\* best block as they were.
C9_SideBlock ==
  [][ (last'.op = "AddBlock" /\ ~last'.isTrunk /\ last'.err = ""
       /\ last'.id \notin Stored)
        => /\ last'.id \in kvHeader' /\ last'.id \in kvBody'
           /\ kvHeader' = kvHeader \cup {last'.id}
           /\ kvBody' = kvBody \cup {last'.id}
           /\ last'.diff = {}
           /\ UNCHANGED <<kvTxLoc, kvTrunk, kvBest, bestBlock>> ]_vars

\* C9 witness: AddBlock(nb, false) has just returned nil for a child of the
\* best block that carries transactions; nb is stored, the best block is
\* still its parent and nb's number has no trunk entry.
C9_Witness ==
  /\ last.op = "AddBlock" /\ ~last.isTrunk /\ last.err = ""
  /\ last.write = "ok"
  /\ ParentID(last.id) = kvBest /\ bestBlock = kvBest
  /\ last.id \in Stored
  /\ Transactions(last.id) # <<>>
  /\ kvTrunk[Number(last.id)] = ZeroHash

\* C10: when the batch write of AddBlock or WriteGenesis fails, the store's
\* error is returned, the store is as it was, the new block's header and
\* body are in no cache, and the in-memory best block is not the new block.
C10_FailedWrite ==
  [][ last'.write = "failed"
        => /\ last'.op \in {"AddBlock", "WriteGenesis"}
           /\ last'.err = ErrStore
           /\ UNCHANGED kvVars
           /\ last'.id \notin cachedHeader'
           /\ last'.id \notin cachedBody'
           /\ bestBlock' # last'.id ]_vars

\* C10 witness: the batch write of a trunk AddBlock that forks below the best
\* block has just failed; the best block is the old one and the new block is
\* not stored.
C10_Witness ==
  /\ last.op = "AddBlock" /\ last.isTrunk /\ last.write = "failed"
  /\ last.err = ErrStore
  /\ Number(kvBest) > 0
  /\ ParentID(last.id) # kvBest
  /\ last.id \notin kvHeader \cup kvBody
  /\ bestBlock = kvBest

\* C15: every successful AddBlock(nb, true) of a block that was not stored
\* leaves the persisted best id and the in-memory best block nb, getBestBlock
\* returning nb, getBlockIDByNumber(number(nb)) returning nb's id, and no
\* trunk entry above number(nb).
C15_NewBlockIsHead ==
  [][ (last'.op = "AddBlock" /\ last'.isTrunk /\ last'.err = ""
       /\ last'.id \notin Stored)
        => /\ kvBest' = last'.id
           /\ bestBlock' = last'.id
           /\ getBestBlock'.err = "" /\ getBestBlock'.best = last'.id
           /\ \A n \in DOMAIN kvTrunk :
                /\ n = Number(last'.id) =>
                     getBlockIDByNumber(n)' = [err |-> "", id |-> last'.id]
                /\ n > Number(last'.id) =>
                     IsNotFound(getBlockIDByNumber(n)'.err)
     ]_vars

\* C15 witness: AddBlock(nb, true) has just made nb the head of a branch
\* shorter than the trunk it replaced: a stored block of a higher number is
\* left without a trunk entry.
C15_Witness ==
  /\ last.op = "AddBlock" /\ last.isTrunk /\ last.write = "ok"
  /\ getBestBlock.best = last.id
  /\ getBlockIDByNumber(Number(last.id)).id = last.id
  /\ \E b \in Stored :
       /\ Number(b) > Number(last.id)
       /\ IsNotFound(getBlockIDByNumber(Number(b)).err)

\* The highest block on the parent-chains of both a and b: their longest
\* common prefix.
CommonAncestor(a, b) ==
  LET ks == { k \in 1..Len(a) : k <= Len(b) /\ SubSeq(a, 1, k) = SubSeq(b, 1, k) }
  IN SubSeq(a, 1, CHOOSE k \in ks : \A j \in ks : j <= k)

\* The blocks from head down to the child of common, head first.
SegmentAbove(head, common) ==
  [ i \in 1..(Len(head) - Len(common)) |-> SubSeq(head, 1, Len(head) - i + 1) ]

\* The walk of every pair of stored blocks of one genesis returns no error,
\* the highest block on both parent-chains, and on each side the blocks
\* from the head down to the child of that block, head first.
WalkResults ==
  \A a, b \in Stored :
    (a[1] = b[1] /\ Ancestors(a) \cup Ancestors(b) \subseteq Stored) =>
      LET r == traceBackToCommonAncestor(a, b)
          common == CommonAncestor(a, b)
      IN /\ r.err = ""
         /\ r.ancestor = common
         /\ r.c1 = SegmentAbove(a, common)
         /\ r.c2 = SegmentAbove(b, common)
         /\ \A i \in 1..Len(r.c1) : r.c1[i] # common
         /\ \A i \in 1..Len(r.c2) : r.c2[i] # common
         /\ \A i \in 2..Len(r.c1) : r.c1[i] = ParentID(r.c1[i - 1])
         /\ \A i \in 2..Len(r.c2) : r.c2[i] = ParentID(r.c2[i - 1])
         /\ (r.c1 = <<>>) <=> (a = common)
         /\ (r.c2 = <<>>) <=> (b = common)

C12_CachesSubordinate ==
  /\ cachedHeader \subseteq kvHeader
  /\ cachedBody \subseteq kvBody
  /\ cachedTxIDs \subseteq kvBody
  /\ \A id \in DOMAIN cachedReceipts :
       id \in DOMAIN kvReceipts /\ kvReceipts[id] = cachedReceipts[id]

\* What a successful SetBlockReceipts(id, r) leaves: the store holds r for
\* id and the cache holds r for id or nothing.
ReceiptsSet(id, r) ==
  /\ id \in DOMAIN kvReceipts /\ kvReceipts[id] = r
  /\ id \in DOMAIN cachedReceipts => cachedReceipts[id] = r

\* C14: a successful SetBlockReceipts(id, r) leaves getBlockReceipts(id)
\* returning r, and so does every later step that is not a SetBlockReceipts
\* for id (a restart and a load from storage among them); SetBlockReceipts(id,
\* r) where r was already set leaves the stored receipts and what
\* getBlockReceipts returns for every block as they were; and
\* GetTransactionReceipt(t), for t located at (id, index) in a trunk block
\* with r set and index within r, returns r[index].
C14_Receipts ==
  [][ \A id \in SmallBlocks, r \in ReceiptVectors :
        LET set == last'.op = "SetBlockReceipts" /\ last'.id = id
        IN /\ (set /\ last'.receipts = r /\ last'.err = "")
                => ReceiptsSet(id, r)'
           /\ (ReceiptsSet(id, r) /\ ~set) => ReceiptsSet(id, r)'
           /\ ReceiptsSet(id, r)'
                => getBlockReceipts(id)' = [err |-> "", receipts |-> r]
           /\ (ReceiptsSet(id, r) /\ set /\ last'.receipts = r)
                => /\ kvReceipts' = kvReceipts
                   /\ \A b \in SmallBlocks :
                        getBlockReceipts(b)' = getBlockReceipts(b)
           /\ (/\ last'.op = "GetTransactionReceipt"
               /\ ReceiptsSet(id, r)
               /\ id \in TrunkBlocks
               /\ kvTxLoc[last'.tx].blockID = id
               /\ kvTxLoc[last'.tx].index < Len(r))
                => /\ last'.err = ""
                   /\ last'.receipt = r[kvTxLoc[last'.tx].index + 1]
     ]_vars

\* C14 witness: after a restart GetTransactionReceipt has just returned, for
\* the transaction at index 1 of the trunk head, the second receipt of the
\* vector set for that block, loaded from the store.
C14_Witness ==
  /\ last.op = "GetTransactionReceipt" /\ last.err = ""
  /\ bestBlock = ZeroHash /\ kvBest # ZeroHash
  /\ kvTxLoc[last.tx] = [blockID |-> kvBest, index |-> 1]
  /\ ReceiptsSet(kvBest, <<"rb", "ra">>)
  /\ last.receipt = "ra"

\* C18: a block that getBlock returns is returned by getBlock, getBlockHeader
\* and getBlockBody after every step, and its header and body stay in the
\* store: WriteGenesis, AddBlock (a reorg among them), SetBlockReceipts and a
\* restart remove none.  An id names one header and one body, so the block
\* returned for an id is the same block.
C18_BlocksKept ==
  [][ \A id \in SmallGenesis \cup SmallBlocks :
        HasBlock(id)
          => /\ HasBlock(id)' /\ HasHeader(id)' /\ HasBody(id)'
             /\ id \in kvHeader => id \in kvHeader'
             /\ id \in kvBody => id \in kvBody'
     ]_vars

\* C18 witness: a reorg has just moved the trunk from the block <<t2, t1>>,
\* which has receipts set, to its sibling and returned the diff {t1}; the
\* block left is off the trunk, without location rows, and still returned.
C18_Witness ==
  /\ last.op = "AddBlock" /\ last.isTrunk /\ last.diff = {"t1"}
  /\ kvBest = last.id
  /\ \E b \in Stored \ TrunkBlocks :
       /\ Number(b) = Number(kvBest)
       /\ b \in DOMAIN kvReceipts
       /\ kvTxLoc["t1"] = NoLoc
       /\ HasBlock(b)

\* The blocks a walk from a and b has to load: on each side the proper
\* ancestors of the head down to the common ancestor; the walk can meet only
\* when the heads are of one genesis and every such block is loaded.
WalkLoads(a, b) ==
  LET n == Len(CommonAncestor(a, b))
  IN { x \in (Ancestors(a) \ {a}) \cup (Ancestors(b) \ {b}) : Len(x) >= n }

WalkMeets(a, b) ==
  a[1] = b[1] /\ \A x \in WalkLoads(a, b) : HasBlock(x)

\* C17: a walk between two stored blocks ends.  Every iteration ends the
\* walk or lowers the number of a cursor and raises none; a walk that has
\* ended returns the common ancestor when every parent on the way could be
\* loaded and the not-found error of the load when one could not (two heads
\* of different geneses among them), as the recursive definition of the walk
\* does; a walk that is running ends; and AddBlock and LookupTransaction
\* whose walk fails return that error and leave the store as it was.
C17_WalkStepInv ==
  (last # Idle /\ last.op = "traceBack" /\ last.done) =>
    LET r == traceBackToCommonAncestor(last.a, last.b)
    IN /\ (last.err = "") <=> WalkMeets(last.a, last.b)
       /\ last.err = "" => /\ last.b1 = last.b2
                           /\ last.ancestor = CommonAncestor(last.a, last.b)
       /\ last.err # "" => IsNotFound(last.err)
       /\ r.err = last.err /\ r.ancestor = last.ancestor
       /\ r.c1 = last.c1 /\ r.c2 = last.c2

C17_WalkStepAct ==
  /\ (last # Idle /\ last.op = "traceBack"
      /\ last' # Idle /\ last'.op = "traceBack")
       => \/ last'.done
          \/ /\ Number(last'.b1) + Number(last'.b2)
                  < Number(last.b1) + Number(last.b2)
             /\ Number(last'.b1) <= Number(last.b1)
             /\ Number(last'.b2) <= Number(last.b2)
             /\ Number(last'.b1) >= 0 /\ Number(last'.b2) >= 0
  /\ \A nb \in TraceBlocks :
       (/\ last' # Idle /\ last'.op = "AddBlock" /\ last'.id = nb
        /\ last'.isTrunk
        /\ ~HasBlock(nb) /\ HasBlock(ParentID(nb))
        /\ getBestBlock.err = ""
        /\ ~WalkMeets(getBestBlock.best, nb))
         => /\ IsNotFound(last'.err)
            /\ UNCHANGED kvVars
            /\ ~HasBlock(nb)'
  /\ \A head \in TraceBlocks :
       (/\ last' # Idle /\ last'.op = "LookupTransaction" /\ last'.id = head
        /\ HasBlock(head)
        /\ getBestBlock.err = ""
        /\ ~WalkMeets(head, getBestBlock.best))
         => /\ IsNotFound(last'.err)
            /\ UNCHANGED kvVars

C17_WalkEnds ==
  /\ []C17_WalkStepInv
  /\ [][C17_WalkStepAct]_vars
  /\ (last.op = "traceBack") ~> (last.op = "traceBack" /\ last.done)

\* C17 witness: a walk between two stored heads of different geneses has
\* ended with the not-found error after it passed both heads.
C17_Witness ==
  /\ last # Idle /\ last.op = "traceBack" /\ last.done
  /\ IsNotFound(last.err)
  /\ last.a[1] # last.b[1]
  /\ Number(last.b1) = 0 /\ Number(last.b2) = 0
  /\ Number(last.a) # Number(last.b)

\* The whole effect of the write that made b the head: b and its
\* parent-chain are loadable, the trunk is b's parent-chain and nothing
\* above it, and the location rows are those of the blocks of that chain.
WholeWrite(b) ==
  /\ kvBest = b
  /\ Ancestors(b) \subseteq Stored
  /\ \A n \in DOMAIN kvTrunk :
       kvTrunk[n] = IF n <= Number(b) THEN SubSeq(b, 1, n + 1) ELSE ZeroHash
  /\ \A tx \in Txs :
       IF tx \in TxsOf(Ancestors(b))
       THEN /\ kvTxLoc[tx] # NoLoc
            /\ kvTxLoc[tx].blockID \in Ancestors(b)
            /\ Transactions(kvTxLoc[tx].blockID)[kvTxLoc[tx].index + 1] = tx
       ELSE kvTxLoc[tx] = NoLoc

\* The threads that hold the write lock and are past their wait for it.
Writing == { t \in Threads : th[t].pc \in {"commit", "install", "unlock"} }

\* The readers to which getBestBlock has returned a block.
GotBest ==
  { t \in Threads : th[t].pc \in {"rest", "runlock"} /\ th[t].err = ""
                      /\ th[t].best # ZeroHash /\ th[t].op \in ReadOps }

\* C11: under every interleaving of readers and writers, while a reader
\* holds the read lock no writer is between its taking of the lock and its
\* release of it, and the store holds no part of a write without the rest:
\* the trunk and the location rows are those of the persisted best block.
\* A reader to which getBestBlock returned a block b sees the whole of the
\* write that installed b, as long as it holds the lock: b and its
\* parent-chain are loadable, trunk[0..number(b)] is that chain, and the
\* location rows are those of the new trunk, never those of the old one.
C11_ReadersSeeWholeWrites ==
  /\ rw.readers # {} =>
       /\ Writing = {}
       /\ kvBest # ZeroHash => WholeWrite(kvBest)
       /\ bestBlock \in {ZeroHash, kvBest}
  /\ \A t \in GotBest : t \in rw.readers /\ WholeWrite(th[t].best)

\* A reader was returned the head that a reorg installed, while the writer
\* of the next block waits for the lock.
C11_Witness ==
  \E t \in GotBest, u \in Threads :
    /\ th[t].best = <<1, 2>> /\ <<1, 3>> \in Stored
    /\ kvTrunk[1] = <<1, 2>>
    /\ th[u].pc = "drain" /\ rw.w = u
\* The threads about to assign c.bestBlock, under the write lock and not.
AssignsBest ==
  { t \in Threads : th[t].pc \in {"store", "install"} }

\* C13: the in-memory best-block pointer is written only by a thread that
\* holds the write lock: no step of a call sets it to a block while no
\* writer holds the lock, and no two threads are ever both at an
\* assignment of it.
C13_BestWrittenUnderWriteLock ==
  [][ /\ bestBlock' \notin {bestBlock, ZeroHash} => rw.w # NoThread
      /\ Cardinality(AssignsBest') <= 1 ]_vars
\* The in-memory pointer, when set, is the persisted best block, and so is
\* every block getBestBlock has loaded or returned.
BestIsPersisted ==
  /\ bestBlock # ZeroHash => bestBlock = kvBest
  /\ \A t \in Threads : th[t].pc = "store" => th[t].best = kvBest
  /\ \A t \in GotBest : th[t].best = kvBest

\* C19 as stated: in every reachable state the in-memory pointer, when set,
\* is the persisted best block.
C19_Original == BestIsPersisted

\* C19: in every reachable state in which no writer stands between the
\* write of its batch and its assignment of the pointer, the in-memory
\* pointer, when set, is the persisted best block; the block a reader is
\* returned is the persisted best block whether it came from the pointer or
\* from the store, and the block a reader is about to put into the pointer
\* is the persisted best block.
C19_BestIsPersisted ==
  (\A t \in Threads : th[t].pc # "install") => BestIsPersisted

\* On a reopened chain whose head is above genesis one reader was returned
\* the head and the other is about to populate the pointer with it.
C19_Witness ==
  \E t \in GotBest, u \in Threads :
    /\ th[t].op = "GetBestBlock" /\ th[t].best = <<1, 2>>
    /\ th[u].pc = "store" /\ th[u].best = <<1, 2>>
\* The lock as a thread holds it.
Holds(t) == t \in rw.readers \/ rw.w = t

\* A thread outside a call holds no lock, and a thread that asks for the
\* lock does not hold it already.
LockReleased ==
  \A t \in Threads : th[t].pc \in {"idle", "lock", "rlock"} => ~Holds(t)

\* C20: under fair scheduling every call returns, with a value or an
\* error, and on every return, the early error returns included, the
\* thread has released the lock; no thread asks for the lock while it
\* holds it, so concurrent readers and writers do not block one another
\* for ever.
C20_CallsReturn ==
  /\ []LockReleased
  /\ \A t \in Threads : (th[t].pc # "idle") ~> (th[t].pc = "idle")

\* A reader is on an early error return, still holding the read lock,
\* while a writer waits for the readers to be gone.
C20_Witness ==
  \E t, u \in Threads :
    /\ th[t].pc = "runlock" /\ th[t].err # "" /\ Holds(t)
    /\ th[u].pc = "drain" /\ rw.w = u
====
